---- MODULE Spec2Model ----
(***************************************************************************)
(* RSSReader.py: the table model RssModel and the window RssFrame with its *)
(* three slots on_button_click, on_click and on_double_click.              *)
(*                                                                         *)
(* Python values are modelled as follows.  A dict is the set of its        *)
(* <<key, value>> pairs, a list is a sequence (row indices stay 0-based    *)
(* and go through PyIndexOK / PyPos, which give Python's list indexing     *)
(* including negative indices).  The result of a call is a record          *)
(* [raised, none, value]: the exception that left the call ("None" when    *)
(* it returned), whether the value is None / an invalid QVariant, and the  *)
(* value.                                                                  *)
(***************************************************************************)
EXTENDS Integers, Sequences, FiniteSets, TLC

\* ------------------------------------------------------------------ bounds
MaxRows == 2        \* rows the article list may grow to; a feed has at most as many entries

\* ------------------------------------------------------- variables (state)
VARIABLES
    heap,             \* list objects: reference -> contents
    self_data,        \* RssFrame.data, a reference into heap
    arraydata,        \* RssModel.arraydata, a reference into heap
    selectedIndexes,  \* rssTable.selectedIndexes(), a sequence of indexes
    description,      \* html last given to description.setHtml
    browser,          \* QUrl last given to browser.load
    call,             \* the slot or accessor invoked last, with its input
    ret,              \* how that invocation ended: [raised, none, value]
    origin            \* history: per appended row, the feed title and entry

vars == <<heap, self_data, arraydata, selectedIndexes, description, browser,
          call, ret, origin>>

\* ------------------------------------------------------ Python primitives
Ret(v) == [raised |-> "None", none |-> FALSE, value |-> v]
RetNone == [raised |-> "None", none |-> TRUE, value |-> ""]
Raise(e) == [raised |-> e, none |-> TRUE, value |-> ""]

HasKey(d, k) == \E p \in d : p[1] = k
Get(d, k) == (CHOOSE p \in d : p[1] = k)[2]

\* list[i] is defined for -len <= i < len, and counts from the end for i < 0
PyIndexOK(n, i) == (-n <= i) /\ (i < n)
PyPos(n, i) == IF i >= 0 THEN i + 1 ELSE n + i + 1

\* ------------------------------------------------------ Qt enumerations
DisplayRole == "DisplayRole"
ToolTipRole == "ToolTipRole"
Roles == {DisplayRole, ToolTipRole}
Horizontal == "Horizontal"
Vertical == "Vertical"
Orientations == {Horizontal, Vertical}

\* a QModelIndex is valid when it has a non-negative row and column
ModelIndex(r, c) == [row |-> r, column |-> c]
isValid(index) == index.row >= 0 /\ index.column >= 0

\* QUrl(string): the url object built from the string it is given
QUrl(s) == [url |-> s]
NoUrl == QUrl("")

\* ------------------------------------------- what feedparser.parse returns
FeedTitles == {"Site", "Blog"}
EntryA == {<<"title", "A">>, <<"link", "http://x/a">>, <<"summary", "sa">>}
EntryB == {<<"title", "B">>, <<"link", "http://x/b">>, <<"summary", "<b>sb</b>">>}
NoTitle == {<<"link", "http://x/a">>, <<"summary", "sa">>}
NoLink == {<<"title", "B">>, <<"summary", "<b>sb</b>">>}
NoSummary == {<<"title", "A">>, <<"link", "http://x/a">>}
ValidEntries == {EntryA, EntryB}
EntryPool == ValidEntries \cup {NoTitle, NoLink, NoSummary}

SeqUpTo(S, n) == UNION {[1..k -> S] : k \in 0..n}

\* feed["feed"] of a failed fetch or parse is the empty dict
FeedDicts == {{<<"title", t>>} : t \in FeedTitles} \cup {{}}
Feeds == {[feed |-> fd, entries |-> es] :
             fd \in FeedDicts, es \in SeqUpTo(EntryPool, MaxRows)}
ValidFeed(f) == HasKey(f.feed, "title")
                /\ \A i \in 1..Len(f.entries) : f.entries[i] \in ValidEntries

\* ---------------------------------------------------------------- RssModel
ArrayData == heap[arraydata]

rowCount == Len(ArrayData)

columnCount ==
    IF Len(ArrayData) > 0 THEN Len(ArrayData[1]) - 2 ELSE 0

data(index, role) ==
    IF ~isValid(index) THEN RetNone
    ELSE IF index.column < 2
         THEN IF role = DisplayRole
              THEN IF PyIndexOK(Len(ArrayData), index.row)
                   THEN Ret(ArrayData[PyPos(Len(ArrayData), index.row)][index.column + 1])
                   ELSE Raise("IndexError")
              ELSE RetNone
         ELSE RetNone

\* mutant of summary: reads the link field of the row
summary_reads_link(index) ==
    IF PyIndexOK(Len(ArrayData), index.row)
    THEN Ret(ArrayData[PyPos(Len(ArrayData), index.row)][4])
    ELSE Raise("IndexError")

summary(index) ==
    IF PyIndexOK(Len(ArrayData), index.row)
    THEN Ret(ArrayData[PyPos(Len(ArrayData), index.row)][3])
    ELSE Raise("IndexError")

\* mutant of url: reads the summary field of the row
url_reads_summary(index) ==
    IF PyIndexOK(Len(ArrayData), index.row)
    THEN Ret(ArrayData[PyPos(Len(ArrayData), index.row)][3])
    ELSE Raise("IndexError")

url(index) ==
    IF PyIndexOK(Len(ArrayData), index.row)
    THEN Ret(ArrayData[PyPos(Len(ArrayData), index.row)][4])
    ELSE Raise("IndexError")

\* mutant of HeaderLabels: the two labels in the other order
HeaderLabels_swapped == <<"Website", "Title">>

HeaderLabels == <<"Title", "Website">>

headerData(section, orientation, role) ==
    IF role = DisplayRole
    THEN IF orientation = Horizontal
         THEN IF PyIndexOK(Len(HeaderLabels), section)
              THEN Ret(HeaderLabels[PyPos(Len(HeaderLabels), section)])
              ELSE Raise("IndexError")
         ELSE RetNone
    ELSE RetNone

\* update(datain): the model refers to the list it is handed
update(datain) == datain

\* ---------------------------------------------------------------- RssFrame
\* one article record, as line 131 builds it
\* mutant of Record: title and feed title in each other's place
Record_source_first(title, website, summ, link) == <<website, title, summ, link>>

Record(title, website, summ, link) == <<title, website, summ, link>>

\* the for loop of on_button_click over feed["entries"]: appends until an
\* entry lacks a key, and then leaves with what was appended so far
\* mutant of AppendEntries: drops the rows of earlier fetches when the feed
\* has entries
RECURSIVE AppendEntries_fill(_, _, _)
AppendEntries_fill(list, website, entries) ==
    IF entries = <<>> THEN [raised |-> "None", list |-> list]
    ELSE LET key == Head(entries) IN
         IF ~HasKey(key, "title") THEN [raised |-> "KeyError", list |-> list]
         ELSE IF ~HasKey(key, "link") THEN [raised |-> "KeyError", list |-> list]
         ELSE IF ~HasKey(key, "summary") THEN [raised |-> "KeyError", list |-> list]
         ELSE AppendEntries_fill(
                 Append(list, <<Get(key, "title"), website,
                                Get(key, "summary"), Get(key, "link")>>),
                 website, Tail(entries))

AppendEntries_replacing(list, website, entries) ==
    IF entries = <<>> THEN [raised |-> "None", list |-> list]
    ELSE AppendEntries_fill(<<>>, website, entries)

RECURSIVE AppendEntries(_, _, _)
AppendEntries(list, website, entries) ==
    IF entries = <<>> THEN [raised |-> "None", list |-> list]
    ELSE LET key == Head(entries) IN
         IF ~HasKey(key, "title") THEN [raised |-> "KeyError", list |-> list]
         ELSE IF ~HasKey(key, "link") THEN [raised |-> "KeyError", list |-> list]
         ELSE IF ~HasKey(key, "summary") THEN [raised |-> "KeyError", list |-> list]
         ELSE AppendEntries(
                 Append(list, Record(Get(key, "title"), website,
                                     Get(key, "summary"), Get(key, "link"))),
                 website, Tail(entries))

FetchCall(feed, before) ==
    IF ValidFeed(feed)
    THEN [fn |-> "on_button_click", valid |-> TRUE, feed |-> feed, before |-> before]
    ELSE [fn |-> "on_button_click", valid |-> FALSE, before |-> before]

Init ==
    /\ heap = [ref \in {1} |-> <<>>]
    /\ self_data = 1
    /\ arraydata = 1
    /\ selectedIndexes = <<>>
    /\ description = ""
    /\ browser = NoUrl
    /\ call = [fn |-> "__init__"]
    /\ ret = RetNone
    /\ origin = <<>>

on_button_click(feed) ==
    /\ Len(heap[self_data]) + Len(feed.entries) <= MaxRows
    /\ call' = FetchCall(feed, ArrayData)
    /\ UNCHANGED <<self_data, selectedIndexes, description, browser>>
    /\ IF ~HasKey(feed.feed, "title")
       THEN /\ ret' = Raise("KeyError")
            /\ UNCHANGED <<heap, arraydata, origin>>
       ELSE LET website == Get(feed.feed, "title")
                old == heap[self_data]
                loop == AppendEntries(old, website, feed.entries)
                added == Len(loop.list) - Len(old)
            IN /\ heap' = [heap EXCEPT ![self_data] = loop.list]
               /\ origin' = origin \o [i \in 1..added |->
                                [source |-> website, entry |-> feed.entries[i]]]
               /\ IF loop.raised = "None"
                  THEN /\ arraydata' = update(self_data)
                       /\ ret' = RetNone
                  ELSE /\ arraydata' = arraydata
                       /\ ret' = Raise(loop.raised)

\* mutant of on_click: hands the summary to setHtml without the envelope
on_click_bare ==
    /\ call' = [fn |-> "on_click", selected |-> selectedIndexes]
    /\ UNCHANGED <<heap, self_data, arraydata, selectedIndexes, browser, origin>>
    /\ IF selectedIndexes = <<>>
       THEN /\ ret' = Raise("IndexError")
            /\ description' = description
       ELSE LET index == selectedIndexes[1]
                s == summary(index)
            IN IF s.raised # "None"
               THEN /\ ret' = Raise(s.raised)
                    /\ description' = description
               ELSE /\ description' = s.value
                    /\ ret' = RetNone

on_click ==
    /\ call' = [fn |-> "on_click", selected |-> selectedIndexes]
    /\ UNCHANGED <<heap, self_data, arraydata, selectedIndexes, browser, origin>>
    /\ IF selectedIndexes = <<>>
       THEN /\ ret' = Raise("IndexError")
            /\ description' = description
       ELSE LET index == selectedIndexes[1]
                s == summary(index)
            IN IF s.raised # "None"
               THEN /\ ret' = Raise(s.raised)
                    /\ description' = description
               ELSE /\ description' = "<html><body>" \o s.value \o "</body></html>"
                    /\ ret' = RetNone

on_double_click ==
    /\ call' = [fn |-> "on_double_click", selected |-> selectedIndexes]
    /\ UNCHANGED <<heap, self_data, arraydata, selectedIndexes, description, origin>>
    /\ IF selectedIndexes = <<>>
       THEN /\ ret' = Raise("IndexError")
            /\ browser' = browser
       ELSE LET index == selectedIndexes[1]
                u == url(index)
            IN IF u.raised # "None"
               THEN /\ ret' = Raise(u.raised)
                    /\ browser' = browser
               ELSE /\ browser' = QUrl(u.value)
                    /\ ret' = RetNone

\* the user selects one cell of the table, or clears the selection
select(r, c) ==
    /\ r \in 0..(rowCount - 1)
    /\ c \in 0..(columnCount - 1)
    /\ selectedIndexes' = <<ModelIndex(r, c)>>
    /\ UNCHANGED <<heap, self_data, arraydata, description, browser, call, ret, origin>>

clearSelection ==
    /\ selectedIndexes # <<>>
    /\ selectedIndexes' = <<>>
    /\ UNCHANGED <<heap, self_data, arraydata, description, browser, call, ret, origin>>

\* ------------------------------------------ calls of RssModel's accessors
RowArgs == (0 - (MaxRows + 1))..MaxRows
IndexRowArgs == (0 - 1)..MaxRows
ColumnArgs == (0 - 1)..2
SectionArgs == (0 - 1)..2

rowCount_call ==
    /\ call' = [fn |-> "rowCount"]
    /\ ret' = Ret(rowCount)
    /\ UNCHANGED <<heap, self_data, arraydata, selectedIndexes, description,
                   browser, origin>>

columnCount_call ==
    /\ call' = [fn |-> "columnCount"]
    /\ ret' = Ret(columnCount)
    /\ UNCHANGED <<heap, self_data, arraydata, selectedIndexes, description,
                   browser, origin>>

data_call(r, c, role) ==
    /\ call' = [fn |-> "data", row |-> r, column |-> c, role |-> role]
    /\ ret' = data(ModelIndex(r, c), role)
    /\ UNCHANGED <<heap, self_data, arraydata, selectedIndexes, description,
                   browser, origin>>

summary_call(r) ==
    /\ call' = [fn |-> "summary", row |-> r]
    /\ ret' = summary(ModelIndex(r, 0))
    /\ UNCHANGED <<heap, self_data, arraydata, selectedIndexes, description,
                   browser, origin>>

url_call(r) ==
    /\ call' = [fn |-> "url", row |-> r]
    /\ ret' = url(ModelIndex(r, 0))
    /\ UNCHANGED <<heap, self_data, arraydata, selectedIndexes, description,
                   browser, origin>>

headerData_call(section, orientation, role) ==
    /\ call' = [fn |-> "headerData", section |-> section,
                orientation |-> orientation, role |-> role]
    /\ ret' = headerData(section, orientation, role)
    /\ UNCHANGED <<heap, self_data, arraydata, selectedIndexes, description,
                   browser, origin>>

Next ==
    \/ \E feed \in Feeds : on_button_click(feed)
    \/ on_click
    \/ on_double_click
    \/ \E r \in 0..MaxRows, c \in 0..1 : select(r, c)
    \/ clearSelection

Spec == Init /\ [][Next]_vars

\* RssModel on its own: the list grows by fetches and the accessors are called
NextModel ==
    \/ \E feed \in Feeds : on_button_click(feed)
    \/ rowCount_call
    \/ columnCount_call
    \/ \E r \in IndexRowArgs, c \in ColumnArgs, role \in Roles : data_call(r, c, role)
    \/ \E r \in RowArgs : summary_call(r)
    \/ \E r \in RowArgs : url_call(r)
    \/ \E s \in SectionArgs, o \in Orientations, role \in Roles :
          headerData_call(s, o, role)

SpecModel == Init /\ [][NextModel]_vars

\* ------------------------------------------------------------- properties
IsPrefix(s, t) == Len(s) <= Len(t) /\ \A i \in 1..Len(s) : s[i] = t[i]

\* the entry that produced row r (0-based), and the feed title it came with
EntryOf(r) == origin[r + 1].entry
SourceOf(r) == origin[r + 1].source

Fetched == call.fn = "on_button_click"

\* C1: a fetch of a valid feed with N entries and feed title S, made when the
\* table had P rows, raises nothing and leaves P + N rows; rows P..P+N-1
\* display (entry title, S) in columns 0 and 1, in feed order (N = 0: the
\* row count is unchanged).
C1_FetchAppendsRows ==
    (Fetched /\ call.valid) =>
        LET P == Len(call.before)
            N == Len(call.feed.entries)
            S == Get(call.feed.feed, "title")
        IN /\ ret.raised = "None"
           /\ rowCount = P + N
           /\ \A i \in 1..N :
                 /\ data(ModelIndex(P + i - 1, 0), DisplayRole)
                       = Ret(Get(call.feed.entries[i], "title"))
                 /\ data(ModelIndex(P + i - 1, 1), DisplayRole) = Ret(S)

C1_Witness ==
    /\ Fetched /\ call.valid
    /\ Len(call.before) >= 1
    /\ Len(call.feed.entries) >= 1
    /\ rowCount = Len(call.before) + Len(call.feed.entries)

\* C2: a failed fetch (no feed title, or an entry without title, link or
\* summary) raises nothing and leaves the table exactly as it was before.
C2_FailedFetchLeavesTable ==
    (Fetched /\ ~call.valid) =>
        /\ ret.raised = "None"
        /\ ArrayData = call.before

\* C3: for every row r, summary(r) and url(r) return the summary and the link
\* of the feed entry that produced row r, unmodified and not swapped.
C3_AccessorsReturnEntryFields ==
    /\ Len(origin) = rowCount
    /\ \A r \in 0..(rowCount - 1) :
          /\ summary(ModelIndex(r, 0)) = Ret(Get(EntryOf(r), "summary"))
          /\ url(ModelIndex(r, 0)) = Ret(Get(EntryOf(r), "link"))
    /\ (call.fn = "summary" /\ call.row \in 0..(rowCount - 1))
          => ret = Ret(Get(EntryOf(call.row), "summary"))
    /\ (call.fn = "url" /\ call.row \in 0..(rowCount - 1))
          => ret = Ret(Get(EntryOf(call.row), "link"))

C3_Witness ==
    /\ call.fn = "url"
    /\ call.row = 1
    /\ rowCount = 2
    /\ EntryOf(0) # EntryOf(1)
    /\ ret = Ret(Get(EntryOf(1), "link"))

\* C4: with row r selected, on_click sets the summary pane to
\* "<html><body>" + summary of entry r + "</body></html>" and changes
\* neither the article list nor the web viewer's target.
C4_ClickShowsSummary ==
    [][(on_click /\ selectedIndexes # <<>>) =>
          /\ description' = "<html><body>"
                               \o Get(EntryOf(selectedIndexes[1].row), "summary")
                               \o "</body></html>"
          /\ ret'.raised = "None"
          /\ heap' = heap /\ arraydata' = arraydata /\ self_data' = self_data
          /\ browser' = browser]_vars

C4_Witness ==
    /\ call.fn = "on_click"
    /\ call.selected # <<>>
    /\ call.selected[1].row = 1
    /\ EntryOf(1) = EntryB
    /\ description = "<html><body><b>sb</b></body></html>"
    /\ browser # NoUrl

\* C5: with row r selected, on_double_click sets the web viewer's target to
\* the link of entry r (the fourth stored field, not the summary) and changes
\* neither the article list nor the summary pane.
C5_DoubleClickLoadsLink ==
    [][(on_double_click /\ selectedIndexes # <<>>) =>
          /\ browser' = QUrl(Get(EntryOf(selectedIndexes[1].row), "link"))
          /\ browser' = QUrl(ArrayData[selectedIndexes[1].row + 1][4])
          /\ ret'.raised = "None"
          /\ heap' = heap /\ arraydata' = arraydata /\ self_data' = self_data
          /\ description' = description]_vars

C5_Witness ==
    /\ call.fn = "on_double_click"
    /\ call.selected # <<>>
    /\ call.selected[1].row = 1
    /\ EntryOf(1) = EntryA
    /\ browser = QUrl("http://x/a")
    /\ description # ""

\* C6: the table model's column count is 2 in every reachable state, the
\* states with an empty article list included.
C6_ColumnCountIsTwo ==
    /\ columnCount = 2
    /\ (call.fn = "columnCount" => ret = Ret(2))

\* C7 as stated: the horizontal display-role header is "Title" for section 0
\* and "Source" for section 1.
C7_HeaderTitleSource ==
    (/\ call.fn = "headerData"
     /\ call.orientation = Horizontal
     /\ call.role = DisplayRole
     /\ call.section \in {0, 1})
        => ret = Ret(IF call.section = 0 THEN "Title" ELSE "Source")

\* C7 amended: the horizontal display-role header is "Title" for section 0
\* and "Website" for section 1, in every state.
C7_HeaderTitleWebsite ==
    (/\ call.fn = "headerData"
     /\ call.orientation = Horizontal
     /\ call.role = DisplayRole
     /\ call.section \in {0, 1})
        => ret = Ret(IF call.section = 0 THEN "Title" ELSE "Website")

C7_Witness ==
    /\ call.fn = "headerData"
    /\ call.orientation = Horizontal
    /\ call.role = DisplayRole
    /\ call.section = 1
    /\ ret = Ret("Website")
    /\ rowCount > 0

\* C8: summary and url raise an error for every row index outside
\* 0..rowCount-1, negative indices included, and never return a row's value.
C8_AccessorsFailFast ==
    (call.fn \in {"summary", "url"} /\ call.row \notin 0..(rowCount - 1))
        => ret.raised # "None"

\* C9: with no row selected, on_click and on_double_click return without
\* raising an error.
C9_NoSelectionIsNoOp ==
    (call.fn \in {"on_click", "on_double_click"} /\ call.selected = <<>>)
        => ret.raised = "None"

\* C10: the article list is append-only: in every step the list before the
\* step is a prefix of the list after it, and the rows the table shows are
\* the appended records in the order they were appended.
C10_AppendOnly ==
    /\ [][/\ IsPrefix(ArrayData, ArrayData')
          /\ IsPrefix(heap[self_data], heap'[self_data'])]_vars
    /\ [](/\ Len(origin) = rowCount
          /\ \A r \in 0..(rowCount - 1) :
                ArrayData[r + 1] = Record(Get(EntryOf(r), "title"), SourceOf(r),
                                          Get(EntryOf(r), "summary"),
                                          Get(EntryOf(r), "link")))

C10_Witness ==
    /\ Fetched /\ call.valid
    /\ Len(call.before) = 1
    /\ rowCount = 2
    /\ ArrayData[1] = call.before[1]
    /\ ArrayData[2] # ArrayData[1]

====
